---- MODULE Spec2Model ----
(***************************************************************************)
(* Model of gifty's interview controller (the App component's handlers)    *)
(* and its generation client (generateContentWithRetry) in src/index.tsx.  *)
(*                                                                         *)
(* A text is a tuple of one-character strings, so that String.trim() can   *)
(* be computed.  A StepResponse is a record holding the fields the parsed  *)
(* JSON object carries.  The React state `data` is NoData (null) or a      *)
(* one-element tuple holding the parsed object.                            *)
(***************************************************************************)
EXTENDS Integers, Sequences, FiniteSets, Bags, TLC

VARIABLES
  appState,     \* useState<AppState>('intro')
  history,      \* useState<HistoryItem[]>([])
  data,         \* useState<StepResponse | null>(null)
  customInput,  \* useState("")
  errorMsg,     \* useState("")
  lastAction,   \* useState<() => void>: the stored closure, or NoAction
  calls,        \* bag of the fetchNextStep invocations suspended in generateContentWithRetry
  issued,       \* history variable: number of requests issued so far
  limit,        \* the number of requests a behaviour may issue
  last          \* history variable: how the client call that ended last went

vars == <<appState, history, data, customInput, errorMsg, lastAction, calls, issued, limit, last>>

ctl == <<appState, history, data, customInput, errorMsg, lastAction>>

-----------------------------------------------------------------------------
(* Bounds of the model *)

MaxIssued == 3      \* requests issued in one behaviour
MaxRecs == 5        \* recommendations of one final response
LongIssued == 9     \* requests issued in one behaviour of a long interview

-----------------------------------------------------------------------------
(* Program constants *)

DefaultRetries == 3
DefaultBackoff == 1000
TooManyRequests == 429
ServiceUnavailable == 503
BadRequest == 400
Absent == 0                \* a status / code the error object does not carry
MaxQuestions == 7          \* "Max Questions" of the system instruction

MSG_NONE == "none"
MSG_GENERIC == "Something went wrong. Please check your connection and try again."
MSG_RATE == "We're receiving too many requests right now. Please wait a moment and try again."

BOOTSTRAP == "Start the session. Ask 'Who are you buying this gift for?'."
FOLLOWUP == "Based on the conversation so far, determine the next step. History: "

-----------------------------------------------------------------------------
(* Texts *)

SP == " "
EmptyText == <<>>

RECURSIVE TrimStart(_)
TrimStart(s) ==
  IF s # <<>> /\ Head(s) = SP THEN TrimStart(Tail(s)) ELSE s

RECURSIVE TrimEnd(_)
TrimEnd(s) ==
  IF s # <<>> /\ s[Len(s)] = SP THEN TrimEnd(SubSeq(s, 1, Len(s) - 1)) ELSE s

Trim(s) == TrimEnd(TrimStart(s))

\* JavaScript truthiness of a string
Truthy(s) == s # EmptyText

-----------------------------------------------------------------------------
(* Values the environment supplies *)

\* what the user can type into the text box
Inputs == { <<SP>>, <<SP, "a">> }

\* parsed StepResponse objects the backend can answer with
StepAsk ==
  [question |-> <<"q">>, options |-> << <<"a">> >>, isFinal |-> FALSE,
   recommendations |-> <<>>]
StepAskAgain ==
  [question |-> <<"r">>, options |-> << <<"a">>, <<SP>> >>, isFinal |-> FALSE]
StepFinal ==
  [question |-> <<>>, options |-> <<>>, isFinal |-> TRUE,
   recommendations |-> << <<"g">> >>]
StepFinalWithOptions ==
  [question |-> <<"d">>, options |-> << <<"a">> >>, isFinal |-> TRUE,
   recommendations |-> << <<"g">>, <<"h">> >>]

\* an object that omits the required field isFinal
StepNoFlag ==
  [question |-> <<"q">>, options |-> << <<"a">> >>]

Payloads == {StepAsk, StepAskAgain, StepFinal, StepFinalWithOptions, StepNoFlag}

\* the fields the response schema requires
RequiredFields == {"question", "options", "isFinal"}
SchemaOK(p) == RequiredFields \subseteq DOMAIN p

\* the positions of the option buttons
OptionIndexes == UNION {DOMAIN p.options : p \in Payloads}

\* response.text: empty, not JSON, or the JSON text of an object
Responses ==
  {[kind |-> "empty"], [kind |-> "invalid"]}
    \cup {[kind |-> "json", value |-> p] : p \in Payloads}

\* errors ai.models.generateContent can reject with
ApiError(s, c) == [status |-> s, code |-> c]
Errors ==
  {ApiError(TooManyRequests, Absent), ApiError(Absent, TooManyRequests),
   ApiError(ServiceUnavailable, Absent), ApiError(BadRequest, Absent)}

\* the errors of the controller's specification
CtlErrors == {ApiError(TooManyRequests, Absent), ApiError(BadRequest, Absent)}

\* the SyntaxError JSON.parse throws
SyntaxError == ApiError(Absent, Absent)

NoData == <<>>
NoAction == [set |-> FALSE]
NoLast == [outcome |-> "none"]

-----------------------------------------------------------------------------
(* generateContentWithRetry *)

\* mutant: every failure is retried while budget remains
ShouldRetry_AnyError(retries, error) == retries > 0

ShouldRetry(retries, error) ==
  retries > 0 /\ (error.status = TooManyRequests \/ error.code = TooManyRequests
                    \/ error.status = ServiceUnavailable)

\* mutant: the delay grows by the base delay instead of doubling
NextBackoff_Linear(backoff) == backoff + DefaultBackoff

NextBackoff(backoff) == backoff * 2

NextRetries(retries) == retries - 1

-----------------------------------------------------------------------------
(* fetchNextStep *)

RECURSIVE questionCount(_)
questionCount(currentHistory) ==
  IF currentHistory = <<>> THEN 0
  ELSE (IF Head(currentHistory).role = "model" THEN 1 ELSE 0)
         + questionCount(Tail(currentHistory))

\* mutant: every request is sent as the first turn
Request_IndexFixed(currentHistory, initialPrompt) ==
  [index |-> 1,
   prompt |-> IF initialPrompt # "" THEN initialPrompt ELSE FOLLOWUP,
   transcript |-> IF initialPrompt # "" THEN <<>> ELSE currentHistory]

\* mutant: the index sent is the count itself, not the count plus one
Request_IndexIsCount(currentHistory, initialPrompt) ==
  [index |-> questionCount(currentHistory),
   prompt |-> IF initialPrompt # "" THEN initialPrompt ELSE FOLLOWUP,
   transcript |-> IF initialPrompt # "" THEN <<>> ELSE currentHistory]

\* the request handed to generateContentWithRetry
Request(currentHistory, initialPrompt) ==
  [index |-> questionCount(currentHistory) + 1,
   prompt |-> IF initialPrompt # "" THEN initialPrompt ELSE FOLLOWUP,
   transcript |-> IF initialPrompt # "" THEN <<>> ELSE currentHistory]

\* mutant: a request starts with the retries the call before it left over
NewCall_LeftoverBudget(currentHistory, initialPrompt) ==
  [hist |-> currentHistory, initialPrompt |-> initialPrompt,
   request |-> Request(currentHistory, initialPrompt),
   budget |-> DefaultRetries, base |-> DefaultBackoff,
   retries |-> IF last.outcome = "none" THEN DefaultRetries ELSE last.retries,
   backoff |-> DefaultBackoff,
   waiting |-> FALSE, errs |-> <<>>, delays |-> <<>>, stale |-> FALSE]

\* a fresh invocation of fetchNextStep suspended in its first attempt
NewCall(currentHistory, initialPrompt) ==
  [hist |-> currentHistory, initialPrompt |-> initialPrompt,
   request |-> Request(currentHistory, initialPrompt),
   budget |-> DefaultRetries, base |-> DefaultBackoff,
   retries |-> DefaultRetries, backoff |-> DefaultBackoff,
   waiting |-> FALSE, errs |-> <<>>, delays |-> <<>>, stale |-> FALSE]

\* mutant: the completion flag is read inverted
NextAppState_Inverted(parsed) ==
  IF "isFinal" \in DOMAIN parsed /\ parsed.isFinal THEN "question" ELSE "results"

NextAppState(parsed) ==
  IF "isFinal" \in DOMAIN parsed /\ parsed.isFinal THEN "results" ELSE "question"

\* mutant: the status of the error is not looked at
ErrorMessage_AlwaysGeneric(error) == MSG_GENERIC

\* mutant: a 503 is reported as "too many requests" as well
ErrorMessage_TransientIsRate(error) ==
  IF error.status = TooManyRequests \/ error.code = TooManyRequests
       \/ error.status = ServiceUnavailable
  THEN MSG_RATE ELSE MSG_GENERIC

ErrorMessage(error) ==
  IF error.status = TooManyRequests \/ error.code = TooManyRequests
  THEN MSG_RATE ELSE MSG_GENERIC

\* the catch block
Catch(error) ==
  /\ errorMsg' = ErrorMessage(error)
  /\ appState' = "error"

\* the statements after the await
Continue(response) ==
  IF response.kind = "empty"
  THEN UNCHANGED <<data, appState, errorMsg>>
  ELSE IF response.kind = "invalid"
  THEN Catch(SyntaxError) /\ UNCHANGED data
  ELSE /\ data' = <<response.value>>
       /\ appState' = NextAppState(response.value)
       /\ UNCHANGED errorMsg

Calls == BagToSet(calls)
Outstanding == BagCardinality(calls)
Add(c) == calls (+) SetToBag({c})
Remove(c) == calls (-) SetToBag({c})
Replace(c, d) == Remove(c) (+) SetToBag({d})

\* an attempt of call c resolves with a response
AttemptSucceeds(c, response) ==
  /\ c \in Calls
  /\ ~c.waiting
  /\ Continue(response)
  /\ calls' = Remove(c)
  /\ last' = [outcome |-> "returned", errs |-> c.errs, delays |-> c.delays,
              retries |-> c.retries, budget |-> c.budget, base |-> c.base,
              request |-> c.request, response |-> response]
  /\ UNCHANGED <<history, customInput, lastAction, issued, limit>>

\* an attempt of call c rejects with an error that is retried after wait(backoff)
AttemptFailsRetry(c, error) ==
  /\ c \in Calls
  /\ ~c.waiting
  /\ ShouldRetry(c.retries, error)
  /\ calls' = Replace(c, [c EXCEPT !.waiting = TRUE,
                                   !.errs = Append(@, error),
                                   !.delays = Append(@, c.backoff)])
  /\ UNCHANGED <<ctl, issued, limit, last>>

\* an attempt of call c rejects with an error that is thrown on to the catch block
AttemptFailsThrow(c, error) ==
  /\ c \in Calls
  /\ ~c.waiting
  /\ ~ShouldRetry(c.retries, error)
  /\ Catch(error)
  /\ calls' = Remove(c)
  /\ last' = [outcome |-> "threw", errs |-> Append(c.errs, error), delays |-> c.delays,
              retries |-> c.retries, budget |-> c.budget, base |-> c.base,
              request |-> c.request]
  /\ UNCHANGED <<history, data, customInput, lastAction, issued, limit>>

\* wait(backoff) of call c elapses and the recursive call starts its attempt
BackoffElapsed(c) ==
  /\ c \in Calls
  /\ c.waiting
  /\ calls' = Replace(c, [c EXCEPT !.waiting = FALSE,
                                   !.retries = NextRetries(@),
                                   !.backoff = NextBackoff(@)])
  /\ UNCHANGED <<ctl, issued, limit, last>>

-----------------------------------------------------------------------------
(* The handlers of App *)

CanIssue == issued < limit

handleStart ==
  /\ appState = "intro"
  /\ CanIssue
  /\ appState' = "loading"
  /\ lastAction' = [set |-> TRUE, hist |-> <<>>, initialPrompt |-> BOOTSTRAP]
  /\ calls' = Add(NewCall(<<>>, BOOTSTRAP))
  /\ issued' = issued + 1
  /\ UNCHANGED <<history, data, customInput, errorMsg, limit, last>>

\* mutant: setData(null) is forgotten
handleReset_KeepsData ==
  /\ history' = <<>>
  /\ customInput' = EmptyText
  /\ errorMsg' = MSG_NONE
  /\ appState' = "intro"
  /\ UNCHANGED <<data, lastAction, calls, issued, limit, last>>

\* history variable: the calls outstanding at a reset belong to an abandoned session
Abandon ==
  LET S == {[c EXCEPT !.stale = TRUE] : c \in Calls}
      N(d) == (IF d \in Calls THEN calls[d] ELSE 0)
                + (IF [d EXCEPT !.stale = FALSE] \in Calls
                   THEN calls[[d EXCEPT !.stale = FALSE]] ELSE 0)
  IN [d \in S |-> N(d)]

handleReset ==
  /\ history' = <<>>
  /\ data' = NoData
  /\ customInput' = EmptyText
  /\ errorMsg' = MSG_NONE
  /\ appState' = "intro"
  /\ calls' = Abandon
  /\ UNCHANGED <<lastAction, issued, limit, last>>

\* data?.question || ''
QuestionText(d) ==
  IF d # NoData /\ "question" \in DOMAIN d[1] /\ Truthy(d[1].question)
  THEN d[1].question ELSE EmptyText

\* mutant: the answer is recorded before the question it answers
newHistory_AnswerFirst(h, d, answer) ==
  h \o << [role |-> "user", text |-> answer],
          [role |-> "model", text |-> QuestionText(d)] >>

\* mutant: the turns before the question on display are dropped
newHistory_LastExchangeOnly(h, d, answer) ==
  << [role |-> "model", text |-> QuestionText(d)],
     [role |-> "user", text |-> answer] >>

\* mutant: the model's question is not recorded with the answer
newHistory_AnswerOnly(h, d, answer) == h \o << [role |-> "user", text |-> answer] >>

newHistory(h, d, answer) ==
  h \o << [role |-> "model", text |-> QuestionText(d)],
          [role |-> "user", text |-> answer] >>

\* mutant: the answer to question MaxQuestions ends the interview
handleAnswer_ForceStop(answer) ==
  IF questionCount(history) + 1 >= MaxQuestions
  THEN /\ history' = newHistory(history, data, answer)
       /\ appState' = "results"
       /\ customInput' = EmptyText
       /\ UNCHANGED <<data, errorMsg, lastAction, calls, issued, limit, last>>
  ELSE /\ CanIssue
       /\ history' = newHistory(history, data, answer)
       /\ appState' = "loading"
       /\ customInput' = EmptyText
       /\ lastAction' = [set |-> TRUE, hist |-> history', initialPrompt |-> ""]
       /\ calls' = Add(NewCall(history', ""))
       /\ issued' = issued + 1
       /\ UNCHANGED <<data, errorMsg, limit, last>>

handleAnswer(answer) ==
  /\ CanIssue
  /\ history' = newHistory(history, data, answer)
  /\ appState' = "loading"
  /\ customInput' = EmptyText
  /\ lastAction' = [set |-> TRUE, hist |-> history', initialPrompt |-> ""]
  /\ calls' = Add(NewCall(history', ""))
  /\ issued' = issued + 1
  /\ UNCHANGED <<data, errorMsg, limit, last>>

\* the question view is rendered
QuestionView == appState = "question" /\ data # NoData

\* an option button is clicked
ClickOption(idx) ==
  /\ QuestionView
  /\ idx \in DOMAIN data[1].options
  /\ handleAnswer(data[1].options[idx])

\* the text box changes
ChangeInput(s) ==
  /\ QuestionView
  /\ customInput' = s
  /\ UNCHANGED <<appState, history, data, errorMsg, lastAction, calls, issued, limit, last>>

handleCustomSubmit ==
  /\ QuestionView
  /\ IF Truthy(Trim(customInput))
     THEN handleAnswer(Trim(customInput))
     ELSE UNCHANGED vars

handleRetry ==
  /\ appState = "error"
  /\ CanIssue
  /\ appState' = "loading"
  /\ errorMsg' = MSG_NONE
  /\ IF lastAction.set
     THEN /\ calls' = Add(NewCall(lastAction.hist, lastAction.initialPrompt))
          /\ issued' = issued + 1
     ELSE UNCHANGED <<calls, issued>>
  /\ UNCHANGED <<history, data, customInput, lastAction, limit, last>>

-----------------------------------------------------------------------------

Init ==
  /\ appState = "intro"
  /\ history = <<>>
  /\ data = NoData
  /\ customInput = EmptyText
  /\ errorMsg = MSG_NONE
  /\ lastAction = NoAction
  /\ calls = EmptyBag
  /\ issued = 0
  /\ limit = MaxIssued
  /\ last = NoLast

Next ==
  \/ handleStart
  \/ handleReset
  \/ \E idx \in OptionIndexes : ClickOption(idx)
  \/ \E s \in Inputs : ChangeInput(s)
  \/ handleCustomSubmit
  \/ handleRetry
  \/ \E c \in Calls, r \in Responses : AttemptSucceeds(c, r)
  \/ \E c \in Calls, e \in CtlErrors : AttemptFailsRetry(c, e)
  \/ \E c \in Calls, e \in CtlErrors : AttemptFailsThrow(c, e)
  \/ \E c \in Calls : BackoffElapsed(c)

Spec == Init /\ [][Next]_vars

\* The generation client under every error class, in sessions the user never
\* resets: start, the attempts, and retry after an error.
NextClient ==
  \/ handleStart
  \/ handleRetry
  \/ \E c \in Calls, r \in Responses : AttemptSucceeds(c, r)
  \/ \E c \in Calls, e \in Errors : AttemptFailsRetry(c, e)
  \/ \E c \in Calls, e \in Errors : AttemptFailsThrow(c, e)
  \/ \E c \in Calls : BackoffElapsed(c)

ClientSpec == Init /\ [][NextClient]_vars

\* A long interview: one session in which every request succeeds at once with an
\* object of the schema and the user answers with the option buttons.
InitLong ==
  /\ appState = "intro"
  /\ history = <<>>
  /\ data = NoData
  /\ customInput = EmptyText
  /\ errorMsg = MSG_NONE
  /\ lastAction = NoAction
  /\ calls = EmptyBag
  /\ issued = 0
  /\ limit = LongIssued
  /\ last = NoLast

SchemaResponses ==
  {[kind |-> "json", value |-> p] : p \in {q \in Payloads : SchemaOK(q)}}

NextLong ==
  \/ handleStart
  \/ \E idx \in OptionIndexes : ClickOption(idx)
  \/ \E c \in Calls, r \in SchemaResponses : AttemptSucceeds(c, r)

LongSpec == InitLong /\ [][NextLong]_vars

-----------------------------------------------------------------------------
(* The results view *)

\* the retailers, by the prefix of their search URL
RETAILERS ==
  << [name |-> "Trendyol",    prefix |-> "https://www.trendyol.com/sr?q="],
     [name |-> "Hepsiburada", prefix |-> "https://www.hepsiburada.com/ara?q="],
     [name |-> "Ciceksepeti", prefix |-> "https://www.ciceksepeti.com/arama?query="],
     [name |-> "Amazon TR",   prefix |-> "https://www.amazon.com.tr/s?k="] >>

\* encodeURIComponent on letters and spaces: a letter stays, a space is escaped
RECURSIVE encodeURIComponent(_)
encodeURIComponent(q) ==
  IF q = <<>> THEN <<>>
  ELSE (IF Head(q) = SP THEN <<"%", "2", "0">> ELSE <<Head(q)>>)
         \o encodeURIComponent(Tail(q))

\* retailer.url(gift)
RetailerUrl(retailer, gift) == <<retailer.prefix>> \o encodeURIComponent(gift)

\* mutant: the index is clamped to the list, not wrapped around it
RetailerAt_Clamped(idx) ==
  RETAILERS[(IF idx < Len(RETAILERS) THEN idx ELSE Len(RETAILERS) - 1) + 1]

\* RETAILERS[idx % RETAILERS.length], idx counted from 0
RetailerAt(idx) == RETAILERS[(idx % Len(RETAILERS)) + 1]

\* data.recommendations?.map((gift, idx) => <a href=...>{gift}</a>)
Anchors(d) ==
  IF "recommendations" \in DOMAIN d
  THEN [j \in DOMAIN d.recommendations |->
          [href |-> RetailerUrl(RetailerAt(j - 1), d.recommendations[j]),
           text |-> d.recommendations[j]]]
  ELSE <<>>

\* the anchors on display
ResultsView == IF appState = "results" /\ data # NoData THEN Anchors(data[1]) ELSE <<>>

\* the gifts a final response can recommend
Gifts == { <<"g">>, <<"h", SP>>, <<"k", SP, "m">> }

RecLists == UNION {[1..n -> Gifts] : n \in 0..MaxRecs}

FinalResponses ==
  {[kind |-> "json",
    value |-> [question |-> <<"d">>, options |-> <<>>, isFinal |-> TRUE,
               recommendations |-> l]] : l \in RecLists}
    \cup {[kind |-> "json",
           value |-> [question |-> <<"d">>, options |-> <<>>, isFinal |-> TRUE]]}

\* A session whose first response is final, with every list of recommendations.
NextResults ==
  \/ handleStart
  \/ \E c \in Calls, r \in FinalResponses : AttemptSucceeds(c, r)

ResultsSpec == Init /\ [][NextResults]_vars

-----------------------------------------------------------------------------
(* Vocabulary of the properties *)

Is429(e) == e.status = TooManyRequests \/ e.code = TooManyRequests
Is503(e) == e.status = ServiceUnavailable \/ e.code = ServiceUnavailable
Transient(e) == Is429(e) \/ Is503(e)

RECURSIVE Pow2(_)
Pow2(n) == IF n = 0 THEN 1 ELSE 2 * Pow2(n - 1)

RECURSIVE Sum(_)
Sum(s) == IF s = <<>> THEN 0 ELSE Head(s) + Sum(Tail(s))

\* delays b, 2b, 4b, ...
Doubling(delays, b) == \A j \in DOMAIN delays : delays[j] = b * Pow2(j - 1)


\* the completion flag of a parsed object
IsFinal(p) == "isFinal" \in DOMAIN p /\ p.isFinal
NotFinal(p) == "isFinal" \in DOMAIN p /\ ~p.isFinal

Blank(text) == \A j \in DOMAIN text : text[j] = SP

\* a step in which a fetchNextStep invocation ends
Completes == BagCardinality(calls') < BagCardinality(calls)

\* a step in which a request is issued
Issues == issued' = issued + 1

\* the call a step issues
Newest == CHOOSE c \in BagToSet(calls') : CopiesIn(c, calls') > CopiesIn(c, calls)

-----------------------------------------------------------------------------
(* C1 *)

\* C1: an answer submitted from the question view extends the transcript by
\* exactly two turns, {model, the question on display} and then {user, the
\* answer}, and the request issued in the same step carries that transcript.
C1_SubmitAppendsTwoTurns ==
  [][(appState = "question" /\ Issues) =>
       LET n == Len(history) IN
         /\ Len(history') = n + 2
         /\ SubSeq(history', 1, n) = history
         /\ history'[n + 1] = [role |-> "model", text |-> data[1].question]
         /\ history'[n + 2].role = "user"
         /\ history'[n + 2].text \in
              {data[1].options[k] : k \in DOMAIN data[1].options} \cup {Trim(customInput)}
         /\ Newest.request.transcript = history'
         /\ Newest.request.prompt = FOLLOWUP
         /\ Newest.hist = history'
    ]_vars

\* a second answer has been submitted and its request is outstanding
C1_Witness ==
  /\ appState = "loading"
  /\ Len(history) = 4
  /\ history[3].role = "model" /\ history[3].text = <<"r">>
  /\ \E c \in Calls : ~c.stale /\ c.request.transcript = history

-----------------------------------------------------------------------------
(* C2 *)

\* C2: at most one generation request is outstanding in every reachable state.
C2_AtMostOneOutstanding == Outstanding <= 1

-----------------------------------------------------------------------------
(* C3 *)

\* C3: the response (success or failure) of a request that was pending when
\* reset() was called changes neither the app state, nor the current
\* question/options/recommendations, nor the error message.
C3_StaleResponseDiscarded ==
  [][\A c \in Calls : (c.stale /\ calls' = Remove(c)) =>
       UNCHANGED <<appState, data, errorMsg>>]_vars

-----------------------------------------------------------------------------
(* C4 *)

\* the call that ended last was issued, failed on every attempt with a 429 or a
\* 503, and the controller shows its error
Exhausted ==
  /\ appState = "error"
  /\ last.outcome = "threw"
  /\ \A j \in DOMAIN last.errs : Transient(last.errs[j])

\* r retries after the first attempt, after waits of b, 2b, ..., 2^(r-1)*b
ExactlyBudgetRetries ==
  /\ Len(last.errs) = last.budget + 1
  /\ Len(last.delays) = last.budget
  /\ Doubling(last.delays, last.base)
  /\ last.retries = 0

-----------------------------------------------------------------------------
(* C5 *)

\* C5: a failure that is neither a 429 nor a 503 is never followed by a wait or
\* by another attempt: every failure a live call has behind it is a 429 or a
\* 503, each followed by one wait, and a call that threw has waited only after
\* the failures before its last one, all of them 429s or 503s.
C5_NoRetryOfOtherFailures ==
  /\ \A c \in Calls :
       /\ \A j \in DOMAIN c.errs : Transient(c.errs[j])
       /\ Len(c.delays) = Len(c.errs)
  /\ last.outcome = "threw" =>
       /\ Len(last.delays) = Len(last.errs) - 1
       /\ \A j \in 1..(Len(last.errs) - 1) : Transient(last.errs[j])
  /\ last.outcome = "returned" =>
       /\ Len(last.delays) = Len(last.errs)
       /\ \A j \in DOMAIN last.errs : Transient(last.errs[j])

\* a 400 after one retried failure has been surfaced with two retries unused
C5_Witness ==
  /\ appState = "error"
  /\ last.outcome = "threw"
  /\ Len(last.errs) = 2
  /\ ~Transient(last.errs[2])
  /\ last.retries = 2
  /\ last.delays = <<1000>>
  /\ errorMsg = MSG_GENERIC

-----------------------------------------------------------------------------
(* C6 *)

\* the call that ended last returned a JSON payload after k 429 failures
RecoveredAfter(k) ==
  /\ last.outcome = "returned"
  /\ last.response.kind = "json"
  /\ Len(last.errs) = k
  /\ \A j \in DOMAIN last.errs : Is429(last.errs[j])

\* C6: k <= r consecutive 429 failures followed by a success: the payload is the
\* one the controller holds, the waits before it add up to (2^k - 1) * b, and
\* while the exchange is going on the controller stays in loading with no error.
C6_RetriesHiddenFromController ==
  /\ Outstanding > 0 => (appState = "loading" /\ errorMsg = MSG_NONE)
  /\ \A k \in 0..(DefaultRetries + 1) :
       RecoveredAfter(k) =>
         /\ k <= last.budget
         /\ data = <<last.response.value>>
         /\ appState \in {"question", "results"}
         /\ errorMsg = MSG_NONE
         /\ Len(last.delays) = k
         /\ Doubling(last.delays, last.base)
         /\ Sum(last.delays) >= (Pow2(k) - 1) * last.base

\* three 429 failures and then a payload
C6_Witness ==
  /\ RecoveredAfter(3)
  /\ Sum(last.delays) = 7000
  /\ appState = "question"
  /\ data = <<StepAsk>>

-----------------------------------------------------------------------------
(* C7 *)

-----------------------------------------------------------------------------
(* C8 *)

\* the user submits an empty or whitespace-only answer, by either path
SubmitsBlank ==
  \/ \E idx \in OptionIndexes : ClickOption(idx) /\ Blank(data[1].options[idx])
  \/ handleCustomSubmit /\ Blank(customInput)

\* C8: submitting an empty or whitespace-only answer changes nothing and issues
\* no request, on every answer path.
C8_BlankAnswerIsNoOp ==
  [][SubmitsBlank =>
       UNCHANGED <<history, appState, data, errorMsg, lastAction, calls, issued>>]_vars

-----------------------------------------------------------------------------
(* C9 *)

\* C9: whenever the controller holds a response with isFinal true, its current
\* options are empty.
C9_FinalHasNoOptions ==
  (data # NoData /\ IsFinal(data[1])) => data[1].options = <<>>

-----------------------------------------------------------------------------
(* C10 *)

\* C10: when a response with isFinal false is applied, the controller is in
\* question afterwards and holds exactly that response, so its current question
\* and options are the response's.
C10_NonFinalResponseBecomesQuestion ==
  [][(/\ Completes
      /\ last'.outcome = "returned"
      /\ last'.response.kind = "json"
      /\ NotFinal(last'.response.value)) =>
       /\ appState' = "question"
       /\ data' # NoData
       /\ data'[1].question = last'.response.value.question
       /\ data'[1].options = last'.response.value.options
    ]_vars

\* the second question of a session is on display
C10_Witness ==
  /\ appState = "question"
  /\ data = <<StepAskAgain>>
  /\ last.outcome = "returned"
  /\ last.response = [kind |-> "json", value |-> StepAskAgain]
  /\ Len(history) = 2

-----------------------------------------------------------------------------
(* C11 *)

\* the step ends a call whose response text is not JSON, or is a JSON object
\* without one of the required fields
SchemaViolationArrives ==
  /\ Completes
  /\ last'.outcome = "returned"
  /\ \/ last'.response.kind = "invalid"
     \/ last'.response.kind = "json" /\ ~SchemaOK(last'.response.value)

\* C11: a response that is not JSON, or that omits a required field, puts the
\* controller in the error state with the generic message, and its data is
\* never taken over.
C11_SchemaViolationIsError ==
  [][SchemaViolationArrives =>
       /\ appState' = "error"
       /\ errorMsg' = MSG_GENERIC
       /\ data' = data
    ]_vars

-----------------------------------------------------------------------------
(* C12 *)

\* the call that ended last failed: it threw, or its text was not JSON
LastFailed ==
  \/ last.outcome = "threw"
  \/ last.outcome = "returned" /\ last.response.kind = "invalid"

\* the request the stored closure issues when it is called
StoredRequest == Request(lastAction.hist, lastAction.initialPrompt)

\* a retry step re-issues the stored request, moves to loading, clears the error
\* message and changes nothing else
RetryStepFrame ==
  (appState = "error" /\ Issues) =>
     /\ appState' = "loading"
     /\ errorMsg' = MSG_NONE
     /\ Newest.request = StoredRequest
     /\ UNCHANGED <<history, data, customInput, lastAction>>

\* C12: in every error state the request retryLast() re-issues is the one that
\* failed most recently, and the retry moves to loading and changes nothing but
\* the error message; the transcript stays as it was.
C12_RetryReissuesFailedRequest ==
  /\ []((appState = "error" /\ LastFailed) =>
          (lastAction.set /\ StoredRequest = last.request))
  /\ [][RetryStepFrame]_vars

-----------------------------------------------------------------------------
(* C13 *)

\* C13: once the controller is in results, the only step that takes it to
\* another state is a reset, which takes it to intro.
C13_ResultsIsTerminal ==
  [][(appState = "results" /\ appState' # "results") =>
       (appState' = "intro" /\ history' = <<>> /\ data' = NoData)]_vars

-----------------------------------------------------------------------------
(* C14 *)

\* C14, as the safety property it implies: only the end of a fetchNextStep
\* invocation takes the controller from loading to question, results or error,
\* so a controller that is in loading has a request outstanding; with none it
\* stays in loading for good.
C14_LoadingHasRequestOutstanding ==
  appState = "loading" => Outstanding > 0

-----------------------------------------------------------------------------
(* C15 *)

\* the step ends a call by throwing: a failure that is not retried, or the
\* failure that follows the last retry
TerminalFailure == Completes /\ last'.outcome = "threw"

\* C15: a terminal request failure puts the controller in the error state, with
\* the "too many requests" message when the failure is a 429 and the generic
\* message otherwise, and changes neither the transcript nor the response data.
C15_TerminalFailureIsClassified ==
  [][TerminalFailure =>
       /\ appState' = "error"
       /\ errorMsg' = (IF Is429(last'.errs[Len(last'.errs)]) THEN MSG_RATE ELSE MSG_GENERIC)
       /\ history' = history
       /\ data' = data
    ]_vars

\* the request of an answered question has run out of retries on 429s
C15_Witness ==
  /\ appState = "error"
  /\ errorMsg = MSG_RATE
  /\ last.outcome = "threw"
  /\ Len(last.errs) = DefaultRetries + 1
  /\ last.request.transcript = history
  /\ Len(history) = 2
  /\ data = <<StepAsk>>

-----------------------------------------------------------------------------
(* C16 *)

\* the count of model-authored turns of a transcript
ModelTurns(h) == Cardinality({j \in DOMAIN h : h[j].role = "model"})

\* C16, as stated: the turn index a request sends to the backend equals the
\* count of model-authored turns in the transcript the request was built from.
C16_IndexIsModelTurnCount ==
  \A c \in Calls : c.request.index = ModelTurns(c.hist)

\* C16, as the code has it: the turn index a request sends to the backend is one
\* more than the count of model-authored turns in the transcript the request was
\* built from; the question on display or asked for is not a turn until it is
\* answered.
C16_IndexIsModelTurnCountPlusOne ==
  \A c \in Calls : c.request.index = ModelTurns(c.hist) + 1

\* the request of the first answer is pending: one model turn, index 2
C16_Witness ==
  \E c \in Calls :
     /\ ~c.stale
     /\ c.hist = history
     /\ ModelTurns(history) = 1
     /\ c.request.index = 2

-----------------------------------------------------------------------------
(* C17 *)

\* the step is start(): it issues the bootstrap request
StartStep == appState = "intro" /\ Issues

\* the step delivers a first response that asks a question
FirstQuestionArrives ==
  /\ Completes
  /\ last'.outcome = "returned"
  /\ last'.request.prompt = BOOTSTRAP
  /\ last'.response.kind = "json"
  /\ NotFinal(last'.response.value)

\* every request so far was issued by start() or by an answer of the session
\* start() began: no retry after a failure, no second session
NoFailureSoFar == issued' = Len(history') \div 2 + 1

\* C17: the bootstrap request carries an empty transcript and turn index 1; a
\* first response with isFinal false puts the controller in question with that
\* response's question and options, as question 1; and the n-th request of a
\* session without failures carries turn index n.
C17_IndexCountsRequests ==
  [][/\ StartStep =>
          /\ Newest.request.transcript = <<>>
          /\ Newest.request.index = 1
          /\ Newest.request.prompt = BOOTSTRAP
     /\ FirstQuestionArrives =>
          /\ appState' = "question"
          /\ data' = <<last'.response.value>>
          /\ last'.request.index = 1
     /\ (Issues /\ NoFailureSoFar) => Newest.request.index = issued'
    ]_vars

\* the first question of a session is on display with its two options
C17_Witness ==
  /\ appState = "question"
  /\ issued = 1
  /\ last.outcome = "returned"
  /\ last.request.prompt = BOOTSTRAP
  /\ last.request.index = 1
  /\ history = <<>>
  /\ data = <<StepAskAgain>>
  /\ Len(data[1].options) = 2

-----------------------------------------------------------------------------
(* C18 *)

\* the step delivers a response that asks a question
QuestionArrives ==
  /\ Completes
  /\ last'.outcome = "returned"
  /\ last'.response.kind = "json"
  /\ NotFinal(last'.response.value)

\* the step delivers a response whose isFinal is true
FinalArrives ==
  /\ Completes
  /\ last'.outcome = "returned"
  /\ last'.response.kind = "json"
  /\ IsFinal(last'.response.value)

\* the step accepts an answer
AnswerStep == QuestionView /\ Len(history') > Len(history)

\* C18: however many responses with isFinal false have arrived, more than
\* MaxQuestions included, such a response puts the controller in question, the
\* answer to the question issues the next request, and the controller enters
\* results only with a response whose isFinal is true.
C18_NoForceStop ==
  [][/\ QuestionArrives => appState' = "question"
     /\ AnswerStep =>
          /\ Issues
          /\ appState' = "loading"
          /\ Newest.request.index = ModelTurns(history) + 2
     /\ (appState # "results" /\ appState' = "results") => FinalArrives
    ]_vars

\* question MaxQuestions + 1 has been answered and the request for the next
\* question is pending
C18_Witness ==
  /\ appState = "loading"
  /\ ModelTurns(history) = MaxQuestions + 1
  /\ \E c \in Calls : c.request.index = MaxQuestions + 2 /\ c.hist = history

-----------------------------------------------------------------------------
(* C19 *)

IsPrefix(s, t) == Len(s) <= Len(t) /\ SubSeq(t, 1, Len(s)) = s

\* the step is reset(): the only operation that enters intro
ResetStep == appState' = "intro" /\ history' = <<>>

\* C19: every step other than reset() leaves the transcript it found as a prefix
\* of the transcript it leaves: no turn is modified, reordered or removed.
C19_TranscriptGrowsByAppending ==
  [][ResetStep \/ IsPrefix(history, history')]_vars

\* a request failed after the second answer was appended to the first
C19_Witness ==
  /\ appState = "error"
  /\ last.outcome = "threw"
  /\ Len(history) = 4
  /\ last.request.transcript = history

-----------------------------------------------------------------------------
(* C20 *)

\* call c is in its first attempt with the whole budget and the base delay
Fresh(c) ==
  /\ c.retries = DefaultRetries
  /\ c.backoff = DefaultBackoff
  /\ c.errs = <<>>
  /\ c.delays = <<>>
  /\ ~c.waiting

\* C20: every request start(), an answer or retry issues begins with DefaultRetries
\* retries and the delay DefaultBackoff, whatever the calls before it consumed;
\* so every call, a retry after exhaustion included, makes at most
\* DefaultRetries + 1 attempts and exactly that many when all of them fail with a
\* 429 or a 503.
C20_EveryRequestStartsFresh ==
  /\ [][Issues => Fresh(Newest)]_vars
  /\ [](\A c \in Calls : Len(c.errs) + c.retries = DefaultRetries + (IF c.waiting THEN 1 ELSE 0))
  /\ []((last.outcome = "threw" /\ \A j \in DOMAIN last.errs : Transient(last.errs[j]))
          => Len(last.errs) = DefaultRetries + 1)

\* the request of an answer ran out of retries, the user retried, and the new
\* call is in its fourth attempt
C20_Witness ==
  /\ appState = "loading"
  /\ last.outcome = "threw"
  /\ Len(last.errs) = DefaultRetries + 1
  /\ \A j \in DOMAIN last.errs : Transient(last.errs[j])
  /\ Len(history) = 2
  /\ last.request.transcript = history
  /\ \E c \in Calls :
        /\ ~c.stale
        /\ c.request = last.request
        /\ Len(c.errs) = DefaultRetries
        /\ c.delays = <<1000, 2000, 4000>>
        /\ ~c.waiting

-----------------------------------------------------------------------------
(* C21 *)

\* the fixed list of the retailers, in order
RetailerOrder == <<"Trendyol", "Hepsiburada", "Ciceksepeti", "Amazon TR">>

RetailerNamed(n) == CHOOSE r \in {RETAILERS[j] : j \in DOMAIN RETAILERS} : r.name = n

\* C21: the results view shows one link per recommendation, in the order of the
\* list, and the link of the recommendation at position i (from 0) is the search
\* URL of the retailer at position i mod 4 of (Trendyol, Hepsiburada,
\* Ciceksepeti, Amazon TR) for that recommendation.
C21_RetailersRoundRobin ==
  (appState = "results" /\ data # NoData /\ "recommendations" \in DOMAIN data[1]) =>
     LET recs == data[1].recommendations IN
       /\ Len(ResultsView) = Len(recs)
       /\ \A i \in 0..(Len(recs) - 1) :
            /\ ResultsView[i + 1].text = recs[i + 1]
            /\ ResultsView[i + 1].href =
                 RetailerUrl(RetailerNamed(RetailerOrder[(i % 4) + 1]), recs[i + 1])

\* five recommendations are on display: the fifth is linked to the first
\* retailer again
C21_Witness ==
  /\ appState = "results"
  /\ Len(ResultsView) = 5
  /\ Head(ResultsView[4].href) = "https://www.amazon.com.tr/s?k="
  /\ Head(ResultsView[5].href) = "https://www.trendyol.com/sr?q="
  /\ ResultsView[5].href = <<"https://www.trendyol.com/sr?q=", "h", "%", "2", "0">>

-----------------------------------------------------------------------------
(* C22 *)

\* C22: the app state and the response data agree: in question the data is
\* present with isFinal false, in results it is present with isFinal true, and in
\* intro the data is absent, the transcript is empty and no error message is set.
C22_AppStateAgreesWithData ==
  /\ appState = "question" => (data # NoData /\ NotFinal(data[1]))
  /\ appState = "results" => (data # NoData /\ IsFinal(data[1]))
  /\ appState = "intro" => (data = NoData /\ history = <<>> /\ errorMsg = MSG_NONE)

-----------------------------------------------------------------------------
(* C23 *)

\* the count of user-authored turns of a transcript
UserTurns(h) == Cardinality({j \in DOMAIN h : h[j].role = "user"})

\* model, user, model, user, ...
Alternates(h) ==
  /\ Len(h) % 2 = 0
  /\ \A j \in DOMAIN h : h[j].role = (IF j % 2 = 1 THEN "model" ELSE "user")

\* the step accepts an answer: the question view issues a request
AnswerAccepted == QuestionView /\ Issues

\* C23: the transcript has even length and alternates model, user, model, user,
\* ...; it holds as many model turns as user turns, and that number is the number
\* of answers accepted since the last reset: reset makes it 0, an accepted answer
\* adds 1 and no other step changes it.
C23_TranscriptAlternates ==
  /\ [](/\ Alternates(history)
        /\ ModelTurns(history) = UserTurns(history))
  /\ [][ModelTurns(history') =
          (IF ResetStep THEN 0
           ELSE IF AnswerAccepted THEN ModelTurns(history) + 1
           ELSE ModelTurns(history))]_vars

\* two answers have been accepted and the third question is on display
C23_Witness ==
  /\ appState = "question"
  /\ Len(history) = 4
  /\ Alternates(history)
  /\ history[2].text # history[4].text
  /\ last.request.transcript = history

-----------------------------------------------------------------------------
(* C24 *)

\* C24: in the error state the request a retry would issue carries the
\* controller's current transcript, and it is the bootstrap request, with no
\* turns, when the current transcript is empty.
C24_RetryCarriesCurrentTranscript ==
  appState = "error" =>
     /\ lastAction.set
     /\ StoredRequest.transcript = history
     /\ StoredRequest.prompt = (IF history = <<>> THEN BOOTSTRAP ELSE FOLLOWUP)

====
